---- MODULE Spec2Model ----
(***************************************************************************)
(* Verification model of the Dogfight3 multiplayer core: the relay server  *)
(* (src/server.js and its deployed variant src/deploy-temp/server.js) and  *)
(* the client's NetworkManager with the AmmoSystem it drives.              *)
(*                                                                         *)
(* A WebSocket connection object (ws) is a slot of Conn.  Every handler of *)
(* the server runs to completion on the single Node.js event loop, so each *)
(* handler is one atomic action; the same holds for the callbacks of the   *)
(* client on the browser's main thread.  JSON text is modelled by what     *)
(* JSON.parse and JSON.stringify do to it: a number literal too large for  *)
(* a double parses to Infinity, Infinity is written back as null, and a    *)
(* property whose value is undefined is left out of the written text.      *)
(***************************************************************************)
EXTENDS Integers, Sequences, FiniteSets, TLC

\* Bounds of the model.
MaxConn == 3        \* connections accepted in one process lifetime
MaxMsgs == 2        \* inbound frames handled in one process lifetime
MaxFaults == 1      \* transport faults (lost peer, lingering close) in one lifetime

Conn == 1..MaxConn
Builds == {"main", "deploy"}    \* src/server.js, src/deploy-temp/server.js

VARIABLES
    build,          \* which of the two server sources is running
    nextId,         \* let nextId
    clients,        \* const clients = new Map(): its keys in insertion order
    activeClients,  \* const activeClients = new Set() (deploy), insertion order
    clientData,     \* the clientData object of each connection's closure
    clientId,       \* the clientId constant of each connection's closure
    readyState,     \* ws.readyState; "NONE" for a ws that does not exist yet
    netUp,          \* whether a write on the ws's socket reaches the peer
    delivered,      \* per connection, the frames the server's writes delivered
    \* history variables, read only by the properties
    clock,          \* number of accept and close events handled
    acceptedAt,     \* clock value at which each connection was accepted
    closedAt,       \* clock value at which each connection's close was handled
    msgs,           \* number of inbound frames handled
    faults,         \* number of transport faults so far
    handled,        \* per sender, the relayed frames of its handled frames
    lastValid,      \* per connection, the pose of its last complete update
    dropped,        \* per connection, Len(handled) at its last dropped frame, or -1
    lost            \* per connection, the frames written to it and not delivered

relayVars == <<build, nextId, clients, activeClients, clientData, clientId,
               readyState, netUp, delivered, clock, acceptedAt, closedAt, msgs,
               faults, handled, lastValid, dropped, lost>>

\* The state of one client (NetworkManager, its remote planes, the player's
\* plane) and of the server as that client sees it.
VARIABLES
    issued,         \* identities the server has handed out (its nextId - 1)
    serverId,       \* the clientId the server gave this client's socket, or 0
    socket,         \* this.socket: "none", "open" or "closed"
    initSeen,       \* whether the init frame of this socket has been handled
    connected,      \* this.connected
    nmClientId,     \* this.clientId of the NetworkManager; 0 stands for null
    remotePlanes,   \* this.remotePlanes: the Map's entries in insertion order
    now,            \* performance.now() and the frame time, in ms
    playerAmmo,     \* the AmmoSystem of the player's plane
    lastUpdateTime, \* this.lastUpdateTime
    sent,           \* the types of the frames written to the socket
    \* history variables, read only by the properties
    reported,       \* per identity, the pose last received for its plane
    ticked,         \* the identities whose plane the last update() touched
    departed,       \* the identities whose playerDisconnect was handled last
    frames          \* number of frames handled and of local triggers

clientVars == <<issued, serverId, socket, initSeen, connected, nmClientId,
                remotePlanes, now, playerAmmo, lastUpdateTime, sent, reported,
                ticked, departed, frames>>

\* The inputs and the result of one interpolation step, for the properties
\* of the interpolation arithmetic alone.
VARIABLES
    lerpFrom,       \* the position before the last step
    lerpPos,        \* the position
    lerpTarget,     \* the received position
    lerpSteps       \* number of steps taken

lerpVars == <<lerpFrom, lerpPos, lerpTarget, lerpSteps>>

\* One AmmoSystem's pool of bullets, examined on its own.
VARIABLES
    poolAmmo,       \* its lastFireTime (and the history fields of playerAmmo)
    activeSlots,    \* the indices of bulletPool whose slot has active = true
    bullets,        \* this.bullets: slot and creationTime of each active bullet
    poolSteps       \* number of steps of the pool examination taken

poolVars == <<poolAmmo, activeSlots, bullets, poolSteps>>

\* The Game object of a page and its AI planes.
VARIABLES
    game,           \* "none" before new Game(), "running" after
    urlMultiplayer, \* the page URL carries the multiplayer parameter
    isMultiplayer,  \* this.isMultiplayer
    enemyPlanes     \* this.enemyPlanes: the waypoint state of each AI plane

gameVars == <<game, urlMultiplayer, isMultiplayer, enemyPlanes>>

\* The WebSocket objects the NetworkManager of a page has created.
VARIABLES
    sockets,        \* every WebSocket created, in order of creation
    thisSocket      \* this.socket: its index in sockets; 0 stands for null

socketVars == <<sockets, thisSocket>>

vars == <<relayVars, clientVars, lerpVars, poolVars, gameVars, socketVars>>

(***************************************************************************)
(* JavaScript values and JSON                                              *)
(***************************************************************************)

\* A JavaScript number or null; a JSON literal has the same shape, where
\* "huge" is a literal such as 1e999.
JNum(n) == [t |-> "num", n |-> n]
JInfinity == [t |-> "inf", n |-> 0]
JNull == [t |-> "null", n |-> 0]
HugeLit == [t |-> "huge", n |-> 0]
JUndefined == [t |-> "undefined", n |-> 0]
\* A double that is not on the grid of the modelled coordinates (see
\* LerpAxis), or NaN.
JOther == [t |-> "other", n |-> 0]

Vec(x, y, z) == [x |-> JNum(x), y |-> JNum(y), z |-> JNum(z)]

\* JSON.parse of a number or null literal.
ParseValue(lit) == IF lit.t = "huge" THEN JInfinity ELSE lit

\* JSON.stringify of a number or null.
StringifyValue(v) == IF v.t = "inf" THEN JNull ELSE v

ParseVec(o) == [k \in DOMAIN o |-> ParseValue(o[k])]
StringifyVec(o) == [k \in DOMAIN o |-> StringifyValue(o[k])]

VecKeys == {"position", "rotation", "direction", "velocity"}

\* JSON.parse / JSON.stringify of an object whose properties are vectors,
\* numbers, the type string and the integer id.
ParseObject(o) ==
    [k \in DOMAIN o |-> IF k \in VecKeys THEN ParseVec(o[k])
                        ELSE IF k = "speed" THEN ParseValue(o[k])
                        ELSE o[k]]
StringifyObject(o) ==
    [k \in DOMAIN o |-> IF k \in VecKeys THEN StringifyVec(o[k])
                        ELSE IF k = "speed" THEN StringifyValue(o[k])
                        ELSE o[k]]

\* obj.k = src.k, where a property that is undefined is an absent key.
AssignField(obj, k, src) ==
    IF k \in DOMAIN src THEN (k :> src[k]) @@ obj
    ELSE [j \in DOMAIN obj \ {k} |-> obj[j]]

\* Object.assign(obj.k, src.k): copies the own properties of src.k, a no-op
\* when src.k is undefined.
ObjectAssignField(obj, k, src) ==
    IF k \in DOMAIN src THEN [obj EXCEPT ![k] = src[k] @@ @] ELSE obj

\* The properties of src named in keys that are not undefined.
Pick(src, keys) == [k \in keys \cap DOMAIN src |-> src[k]]

(***************************************************************************)
(* Inbound text frames                                                     *)
(***************************************************************************)

\* A text frame as a client may write it: cut short ({"type": "update"),
\* the JSON text null, or the text of an object.
Truncated == [syntax |-> "truncated", obj |-> [type |-> "update"]]
NullText == [syntax |-> "null", obj |-> [type |-> "null"]]
ObjectText(o) == [syntax |-> "object", obj |-> o]

\* update frames carrying position {x,y,z}, rotation {x,y,z} and speed
CompleteUpdates ==
    { [type |-> "update", position |-> Vec(10, 20, 30),
       rotation |-> Vec(0, 1, 0), speed |-> JNum(5)],
      [type |-> "update",
       position |-> [x |-> HugeLit, y |-> JNum(0), z |-> JNum(0)],
       rotation |-> Vec(0, 0, 0), speed |-> JNum(0)] }

\* update frames that lack a field
IncompleteUpdates ==
    { [type |-> "update", position |-> [x |-> JNum(1)]] }

FireFrames ==
    { [type |-> "fire", position |-> Vec(10, 20, 30),
       direction |-> Vec(0, 0, -1), velocity |-> Vec(0, 0, -50)] }

OtherFrames == { [type |-> "ping"] }

RawFrames ==
    {Truncated, NullText} \cup
    { ObjectText(o) : o \in CompleteUpdates \cup IncompleteUpdates
                            \cup FireFrames \cup OtherFrames }

XYZ == {"x", "y", "z"}

\* An update object that carries every field of the wire format
\* (position {x,y,z}, rotation {x,y,z}, speed): a valid update frame.  The
\* server's code makes no such test; only the history variable lastValid
\* and the properties use it.
IsCompleteUpdate(data) ==
    /\ data.type = "update"
    /\ {"position", "rotation", "speed"} \subseteq DOMAIN data
    /\ DOMAIN data.position = XYZ
    /\ DOMAIN data.rotation = XYZ

Pose(o) == Pick(o, {"position", "rotation", "speed"})

(***************************************************************************)
(* The server's code                                                       *)
(***************************************************************************)

\* JSON.parse(message) returns and data.type can be read.
Parses(raw) == raw.syntax = "object"

\* const clientId = nextId++  (the value bound to clientId)
NewClientId_bySize == Len(clients) + 1
NewClientId == nextId

\* The clientId that the handlers of ws close over.
ClosureClientId_shared(ws) == nextId - 1
ClosureClientId(ws) == clientId[ws]

\* const clientData = { id, position, rotation, speed }
DefaultClientData(id) ==
    [id |-> id, position |-> Vec(0, 10, 0), rotation |-> Vec(0, 0, 0),
     speed |-> JNum(0)]

\* The collection the fan-out loops iterate: clients.forEach in src/server.js,
\* activeClients.forEach in src/deploy-temp/server.js.
FanoutCollection(reg, act) == IF build = "main" THEN reg ELSE act

\* activeClients.add(ws): only src/deploy-temp/server.js has the Set.
AddActive_skipped(act, ws) == act
AddActive(act, ws) == IF build = "deploy" THEN Append(act, ws) ELSE act

\* clients.delete(ws) / activeClients.delete(ws)
Delete_keep(coll, ws) == coll
Delete(coll, ws) == SelectSeq(coll, LAMBDA client : client # ws)

\* ws.send(text) on one connection: the frame reaches the peer when the
\* socket is writable and the transport still works; a write on a broken
\* transport is lost and does not throw.  The handlers read readyState as
\* it is while they run, which is its value at the end of the step.
Send_unshift(log, client, frame) ==
    IF readyState'[client] = "OPEN" /\ netUp[client]
    THEN [log EXCEPT ![client] = <<frame>> \o @] ELSE log
Send(log, client, frame) ==
    IF readyState'[client] = "OPEN" /\ netUp[client]
    THEN [log EXCEPT ![client] = Append(@, frame)] ELSE log

\* forEach(client => client.send(frame)) over the chosen targets
RECURSIVE SendAll_abortOnFailure(_, _, _)
SendAll_abortOnFailure(log, targets, frame) ==
    IF targets = <<>> \/ ~netUp[Head(targets)] THEN log
    ELSE SendAll_abortOnFailure(Send(log, Head(targets), frame),
                                Tail(targets), frame)
RECURSIVE SendAll(_, _, _)
SendAll(log, targets, frame) ==
    IF targets = <<>> THEN log
    ELSE SendAll(Send(log, Head(targets), frame), Tail(targets), frame)

\* if (client !== ws && client.readyState === WebSocket.OPEN)
BroadcastTargets_all(coll, ws) ==
    SelectSeq(coll, LAMBDA client : readyState'[client] = "OPEN")
BroadcastTargets(coll, ws) ==
    SelectSeq(coll, LAMBDA client :
                        client # ws /\ readyState'[client] = "OPEN")

\* if (client.readyState === WebSocket.OPEN), in the close handler
DisconnectTargets_inverted(coll) ==
    SelectSeq(coll, LAMBDA client : readyState'[client] # "OPEN")
DisconnectTargets(coll) ==
    SelectSeq(coll, LAMBDA client : readyState'[client] = "OPEN")

\* clients.forEach((data, client) => { if (client !== ws) push(data) })
RECURSIVE Records(_, _)
Records(coll, data) ==
    IF coll = <<>> THEN <<>>
    ELSE <<data[Head(coll)]>> \o Records(Tail(coll), data)
ExistingPlayers_all(reg, data, ws) == Records(reg, data)
ExistingPlayers(reg, data, ws) ==
    Records(SelectSeq(reg, LAMBDA client : client # ws), data)

InitMessage(id) == [type |-> "init", id |-> id]
PlayersMessage(existingPlayers) ==
    [type |-> "players",
     players |-> [i \in DOMAIN existingPlayers |->
                      StringifyObject(existingPlayers[i])]]

\* The writes of the connection handler after the registration.
SendRoster_always(log, ws, id, existingPlayers) ==
    Send(Send(log, ws, InitMessage(id)), ws, PlayersMessage(existingPlayers))
SendRoster(log, ws, id, existingPlayers) ==
    IF Len(existingPlayers) > 0
    THEN Send(Send(log, ws, InitMessage(id)), ws,
              PlayersMessage(existingPlayers))
    ELSE Send(log, ws, InitMessage(id))

\* JSON.stringify({type: 'playerUpdate', id, position, rotation, speed})
createPlayerUpdateMessage(id, data) ==
    StringifyObject([type |-> "playerUpdate", id |-> id]
                    @@ Pick(data, {"position", "rotation", "speed"}))

\* JSON.stringify({type: 'playerFire', id, position, direction, velocity})
createFireMessage(id, data) ==
    StringifyObject([type |-> "playerFire", id |-> id]
                    @@ Pick(data, {"position", "direction", "velocity"}))

\* JSON.stringify({type: 'playerDisconnect', id})
DisconnectMessage(id) == [type |-> "playerDisconnect", id |-> id]

\* The update branch's writes to clientData: plain assignments in
\* src/server.js, Object.assign on position and rotation in the deployed one.
UpdateClientData(rec, data) ==
    IF build = "main"
    THEN AssignField(AssignField(AssignField(rec, "position", data),
                                 "rotation", data), "speed", data)
    ELSE AssignField(ObjectAssignField(ObjectAssignField(rec, "position", data),
                                       "rotation", data), "speed", data)

(***************************************************************************)
(* The client's objects as their constructors leave them                   *)
(***************************************************************************)

\* this.fireCooldown = 80 (ms between shots)
fireCooldown == 80

\* new AmmoSystem(scene, eventBus): lastFireTime = 0, no active bullet.
\* spawns lists the times at which a bullet pair was created, refused is the
\* time of the last trigger that returned at the cooldown test (0: none).
NewAmmoSystem == [lastFireTime |-> 0, spawns |-> <<>>, refused |-> 0]

\* The pose of a new EnemyPlane: createMesh() puts the mesh at
\* (0, groundHeight, 40) with no rotation, and the constructor sets
\* speed = maxSpeed * 0.55.  None of these numbers is a modelled coordinate.
ConstructorPosition == [x |-> JOther, y |-> JOther, z |-> JOther]
ConstructorRotation == [x |-> JOther, y |-> JOther, z |-> JOther]
ConstructorSpeed == JOther

\* planeFactory.createEnemyPlane()
createEnemyPlane ==
    [position |-> ConstructorPosition, rotation |-> ConstructorRotation,
     speed |-> ConstructorSpeed, ammoSystem |-> NewAmmoSystem]

\* new NetworkManager(eventBus, playerPlane), the player's plane it is given,
\* and a server that has accepted nobody.
ClientConstructed ==
    /\ issued = 0
    /\ serverId = 0
    /\ socket = "none"
    /\ initSeen = FALSE
    /\ connected = FALSE
    /\ nmClientId = 0
    /\ remotePlanes = <<>>
    /\ now = 0
    /\ playerAmmo = NewAmmoSystem
    /\ lastUpdateTime = 0
    /\ sent = <<>>
    /\ reported = <<>>
    /\ ticked = {}
    /\ departed = {}
    /\ frames = 0

\* initBulletPool(): maxBullets slots, none active; this.bullets = [].
PoolConstructed ==
    /\ poolAmmo = NewAmmoSystem
    /\ activeSlots = {}
    /\ bullets = <<>>
    /\ poolSteps = 0

\* EnemyPlane: this.minWaypoints = 3, this.maxWaypoints = 5,
\* this.waypointChangeInterval = 3 (seconds)
minWaypoints == 3
maxWaypoints == 5
waypointChangeInterval == 3

\* The waypoint state of an EnemyPlane.  A waypoint is a fresh random point:
\* the n-th point the plane generates is written n.  lastWaypointChangeTime
\* is kept in milliseconds here (the code stores performance.now() / 1000).
\* generateNewWaypoint(): push the new point, stamp the time.
generateNewWaypoint(ai, t) ==
    [waypointQueue |-> Append(ai.waypointQueue, ai.made + 1),
     made |-> ai.made + 1,
     lastWaypointChangeTime |-> t]

\* k calls of generateNewWaypoint() in a row (the loop of
\* generateInitialPath)
RECURSIVE GenerateWaypoints(_, _, _)
GenerateWaypoints(ai, t, k) ==
    IF k = 0 THEN ai
    ELSE GenerateWaypoints(generateNewWaypoint(ai, t), t, k - 1)

\* generateInitialPath(): clear the queue, generate maxWaypoints points
generateInitialPath(ai, t) ==
    GenerateWaypoints([ai EXCEPT !.waypointQueue = <<>>], t, maxWaypoints)

\* new EnemyPlane(scene, eventBus) at time t
NewEnemyPlane(t) ==
    generateInitialPath([waypointQueue |-> <<>>, made |-> 0,
                         lastWaypointChangeTime |-> 0], t)

\* Game.init(): the AI enemy is created when this.isMultiplayer is false at
\* that point of init().  The constructor has set it to false, and
\* checkMultiplayerMode(), which reads the URL, runs after the test.
EnemiesOfInit(url, t) ==
    LET constructorIsMultiplayer == FALSE
    IN  IF ~constructorIsMultiplayer THEN <<NewEnemyPlane(t)>> ELSE <<>>

\* No Game object (the server process, a page before DOMContentLoaded).
GameAbsent ==
    /\ game = "none"
    /\ isMultiplayer = FALSE
    /\ enemyPlanes = <<>>

\* new Game() has run at time 0 on a page whose URL has (url) or has not the
\* multiplayer parameter.
GameConstructed(url) ==
    /\ game = "running"
    /\ urlMultiplayer = url
    /\ isMultiplayer = url
    /\ enemyPlanes = EnemiesOfInit(url, 0)

\* NetworkManager constructor: this.socket = null; no WebSocket exists.
NoSockets ==
    /\ sockets = <<>>
    /\ thisSocket = 0

\* No interpolation step is being examined.
LerpIdle ==
    /\ lerpFrom = Vec(0, 0, 0)
    /\ lerpPos = Vec(0, 0, 0)
    /\ lerpTarget = Vec(0, 0, 0)
    /\ lerpSteps = 0

(***************************************************************************)
(* Initial state and handlers                                              *)
(***************************************************************************)

\* The server's module-level state: nextId = 1, empty Map and Set.
RelayConstructed ==
    /\ nextId = 1
    /\ clients = <<>>
    /\ activeClients = <<>>
    /\ clientData = <<>>
    /\ clientId = <<>>
    /\ readyState = [c \in Conn |-> "NONE"]
    /\ netUp = [c \in Conn |-> TRUE]
    /\ delivered = [c \in Conn |-> <<>>]
    /\ clock = 0
    /\ acceptedAt = [c \in Conn |-> 0]
    /\ closedAt = [c \in Conn |-> 0]
    /\ msgs = 0
    /\ faults = 0
    /\ handled = [c \in Conn |-> <<>>]
    /\ lastValid = <<>>
    /\ dropped = [c \in Conn |-> -1]
    /\ lost = [c \in Conn |-> {}]

Init ==
    /\ build \in Builds
    /\ RelayConstructed
    /\ ClientConstructed
    /\ LerpIdle
    /\ PoolConstructed
    /\ NoSockets
    /\ GameAbsent
    /\ urlMultiplayer = FALSE

\* wss.on('connection', (ws) => ...).  The connection objects are taken in
\* the order of Conn: which object a connection is does not matter to the code.
Accept(ws) ==
    /\ readyState[ws] = "NONE"
    /\ \A c \in Conn : c < ws => readyState[c] # "NONE"
    /\ LET id == NewClientId
           data == (ws :> DefaultClientData(id)) @@ clientData
           reg == Append(clients, ws)
       IN  /\ nextId' = nextId + 1
           /\ clientId' = (ws :> id) @@ clientId
           /\ clientData' = data
           /\ clients' = reg
           /\ activeClients' = AddActive(activeClients, ws)
           /\ readyState' = [readyState EXCEPT ![ws] = "OPEN"]
           /\ delivered' = SendRoster(delivered, ws, id,
                                      ExistingPlayers(reg, data, ws))
           /\ lastValid' = (ws :> Pose(DefaultClientData(id))) @@ lastValid
    /\ clock' = clock + 1
    /\ acceptedAt' = [acceptedAt EXCEPT ![ws] = clock + 1]
    /\ UNCHANGED <<build, netUp, closedAt, msgs, faults, handled, dropped,
                   lost>>
    /\ UNCHANGED <<clientVars, lerpVars, poolVars, gameVars, socketVars>>

\* The catch block of the message handler: console.error and nothing else.
OnParseError_terminate(ws) ==
    /\ readyState' = [readyState EXCEPT ![ws] = "CLOSING"]
    /\ UNCHANGED <<clients, activeClients, clientData, delivered, handled,
                   lastValid, lost>>
OnParseError(ws) ==
    UNCHANGED <<readyState, clients, activeClients, clientData, delivered,
                handled, lastValid, lost>>

\* The frames of a fan-out that are written to a transport that has failed.
LostTo(targets, frame) ==
    [c \in Conn |->
        IF \E i \in DOMAIN targets : targets[i] = c /\ ~netUp[c]
        THEN lost[c] \cup {frame} ELSE lost[c]]

\* if (data.type === 'update') { ... }
OnUpdate(ws, data) ==
    LET frame == createPlayerUpdateMessage(ClosureClientId(ws), data)
    IN  /\ UNCHANGED <<readyState, clients, activeClients>>
        /\ clientData' = [clientData EXCEPT ![ws] = UpdateClientData(@, data)]
        /\ LET targets ==
                   BroadcastTargets(FanoutCollection(clients, activeClients), ws)
           IN  /\ delivered' = SendAll(delivered, targets, frame)
               /\ lost' = LostTo(targets, frame)
        /\ handled' = [handled EXCEPT ![ws] = Append(@, frame)]
        /\ lastValid' = IF IsCompleteUpdate(data)
                        THEN [lastValid EXCEPT ![ws] = Pose(data)]
                        ELSE lastValid

\* else if (data.type === 'fire') { ... }
OnFire(ws, data) ==
    LET frame == createFireMessage(ClosureClientId(ws), data)
    IN  /\ UNCHANGED <<readyState, clients, activeClients, clientData,
                       lastValid>>
        /\ LET targets ==
                   BroadcastTargets(FanoutCollection(clients, activeClients), ws)
           IN  /\ delivered' = SendAll(delivered, targets, frame)
               /\ lost' = LostTo(targets, frame)
        /\ handled' = [handled EXCEPT ![ws] = Append(@, frame)]

\* ws.on('message', (message) => ...).  The transport hands over frames of a
\* connection until it emits the connection's close event.
OnMessage(ws, raw) ==
    /\ readyState[ws] \in {"OPEN", "CLOSING"}
    /\ msgs < MaxMsgs
    /\ msgs' = msgs + 1
    /\ IF ~Parses(raw) THEN OnParseError(ws)
       ELSE LET data == ParseObject(raw.obj)
            IN  IF data.type = "update" THEN OnUpdate(ws, data)
                ELSE IF data.type = "fire" THEN OnFire(ws, data)
                ELSE UNCHANGED <<readyState, clients, activeClients,
                                 clientData, delivered, handled, lastValid,
                                 lost>>
    /\ dropped' = IF Parses(raw) THEN dropped
                  ELSE [dropped EXCEPT ![ws] = Len(handled[ws])]
    /\ UNCHANGED <<build, nextId, clientId, netUp, clock, acceptedAt,
                   closedAt, faults>>
    /\ UNCHANGED <<clientVars, lerpVars, poolVars, gameVars, socketVars>>

\* ws.on('close', () => ...).  The transport sets readyState to CLOSED and
\* then emits the event.
OnClose(ws) ==
    /\ readyState[ws] \in {"OPEN", "CLOSING"}
    /\ readyState' = [readyState EXCEPT ![ws] = "CLOSED"]
    /\ LET reg == Delete(clients, ws)
           act == IF build = "deploy" THEN Delete(activeClients, ws)
                  ELSE activeClients
       IN  /\ clients' = reg
           /\ activeClients' = act
           /\ LET targets == DisconnectTargets(FanoutCollection(reg, act))
                  frame == DisconnectMessage(ClosureClientId(ws))
              IN  /\ delivered' = SendAll(delivered, targets, frame)
                  /\ lost' = LostTo(targets, frame)
    /\ clock' = clock + 1
    /\ closedAt' = [closedAt EXCEPT ![ws] = clock + 1]
    /\ UNCHANGED <<build, nextId, clientData, clientId, netUp, acceptedAt,
                   msgs, faults, handled, lastValid, dropped>>
    /\ UNCHANGED <<clientVars, lerpVars, poolVars, gameVars, socketVars>>

(***************************************************************************)
(* The transport                                                           *)
(***************************************************************************)

\* The peer of an open connection becomes unreachable: from now on the
\* server's writes to it fail, while readyState is still OPEN.
NetFail(ws) ==
    /\ readyState[ws] = "OPEN"
    /\ netUp[ws]
    /\ faults < MaxFaults
    /\ faults' = faults + 1
    /\ netUp' = [netUp EXCEPT ![ws] = FALSE]
    /\ UNCHANGED <<build, nextId, clients, activeClients, clientData,
                   clientId, readyState, delivered, clock, acceptedAt,
                   closedAt, msgs, handled, lastValid, dropped, lost>>
    /\ UNCHANGED <<clientVars, lerpVars, poolVars, gameVars, socketVars>>

\* The transport sees the close frame of the peer or the failure of the
\* socket: readyState leaves OPEN, and other handlers run before the close
\* event of this connection is emitted.
Closing(ws) ==
    /\ readyState[ws] = "OPEN"
    /\ faults < MaxFaults
    /\ faults' = faults + 1
    /\ readyState' = [readyState EXCEPT ![ws] = "CLOSING"]
    /\ UNCHANGED <<build, nextId, clients, activeClients, clientData,
                   clientId, netUp, delivered, clock, acceptedAt, closedAt,
                   msgs, handled, lastValid, dropped, lost>>
    /\ UNCHANGED <<clientVars, lerpVars, poolVars, gameVars, socketVars>>

Next ==
    \/ \E ws \in Conn : Accept(ws)
    \/ \E ws \in Conn, raw \in RawFrames : OnMessage(ws, raw)
    \/ \E ws \in Conn : OnClose(ws)
    \/ \E ws \in Conn : NetFail(ws)
    \/ \E ws \in Conn : Closing(ws)

Spec == Init /\ [][Next]_vars

(***************************************************************************)
(* The client's interpolation arithmetic                                   *)
(*                                                                         *)
(* A coordinate of a pose is an IEEE 754 double.  The model takes the      *)
(* doubles of one binade: the coordinate n stands for (2^52 + n) * u with  *)
(* u the unit in the last place of that binade, so the modelled            *)
(* coordinates are consecutive doubles.  For two of them the difference    *)
(* t - x is exact, its product with 0.1 is k/10 up to a relative error     *)
(* below 2^-53, and the sum x + k/10 is rounded to the nearest double,     *)
(* ties to the even significand (2^52 is even, so n has the parity of the  *)
(* significand).                                                           *)
(***************************************************************************)

MaxUlp == 6         \* coordinates of the interpolation steps examined: 0..MaxUlp
MaxSteps == 2       \* interpolation steps examined from one initial position

\* this.interpolationFactor = 0.1, as the divisor of the difference
interpolationDivisor == 10

\* x += (t - x) * this.interpolationFactor on one axis, in doubles
LerpAxis_truncate(x, t) == x + ((t - x) \div interpolationDivisor)
LerpAxis(x, t) ==
    LET k == t - x
        q == k \div interpolationDivisor
        r == k % interpolationDivisor
    IN  IF 2 * r < interpolationDivisor THEN x + q
        ELSE IF 2 * r > interpolationDivisor THEN x + q + 1
        ELSE IF (x + q) % 2 = 0 THEN x + q ELSE x + q + 1

\* The same on JavaScript values: null, undefined and the numbers that are
\* not modelled coordinates give a number that is not a modelled coordinate.
LerpValue(c, t) ==
    IF c.t = "num" /\ t.t = "num" THEN JNum(LerpAxis(c.n, t.n)) ELSE JOther

\* data.position.x: undefined when the received object has no such property
Component(o, k) == IF k \in DOMAIN o THEN o[k] ELSE JUndefined

\* mesh.position.set(o.x, o.y, o.z) / mesh.rotation.set(o.x, o.y, o.z)
SetVec(o) == [k \in XYZ |-> Component(o, k)]

\* mesh.position.lerp(new THREE.Vector3(o.x, o.y, o.z), interpolationFactor)
\* and the three rotation assignments that follow it
Lerp(cur, o) == [k \in XYZ |-> LerpValue(cur[k], Component(o, k))]

Abs(n) == IF n < 0 THEN -n ELSE n

\* The distance of p from q on one axis, and the square of their distance.
AxisGap(p, q, k) == Abs(q[k].n - p[k].n)
SquaredDistance(p, q) ==
    AxisGap(p, q, "x") * AxisGap(p, q, "x")
    + AxisGap(p, q, "y") * AxisGap(p, q, "y")
    + AxisGap(p, q, "z") * AxisGap(p, q, "z")

Points == { Vec(x, y, z) : x, y, z \in 0..MaxUlp }

\* A remote plane at any position receives any position.
InitLerp ==
    /\ build = "main"
    /\ RelayConstructed
    /\ ClientConstructed
    /\ PoolConstructed
    /\ NoSockets
    /\ GameConstructed(TRUE)
    /\ lerpPos \in Points
    /\ lerpTarget \in Points
    /\ lerpFrom = lerpPos
    /\ lerpSteps = 0

\* One more playerUpdate with the same position is handled.
InterpolationStep ==
    /\ lerpSteps < MaxSteps
    /\ lerpSteps' = lerpSteps + 1
    /\ lerpFrom' = lerpPos
    /\ lerpPos' = Lerp(lerpPos, lerpTarget)
    /\ UNCHANGED <<lerpTarget, relayVars, clientVars, poolVars, gameVars, socketVars>>

NextLerp == InterpolationStep

SpecLerp == InitLerp /\ [][NextLerp]_vars

(***************************************************************************)
(* The client: NetworkManager and the planes it drives                     *)
(***************************************************************************)

MaxIds == 3         \* identities the server hands out in one run
MaxFrames == 4      \* frames handled and local fire triggers in one run
MaxTime == 160      \* last value of performance.now() examined, in ms

\* this.updateInterval = 100
updateInterval == 100

\* if (position.distanceTo(remotePlane.mesh.position) > 20)
snapDistance == 20

\* The remotePlanes Map: entries [id, plane] in insertion order.
MapHas(m, k) == \E i \in DOMAIN m : m[i].id = k
MapGet(m, k) == m[CHOOSE i \in DOMAIN m : m[i].id = k].plane
MapSet(m, k, v) ==
    IF MapHas(m, k)
    THEN [i \in DOMAIN m |-> IF m[i].id = k THEN [id |-> k, plane |-> v]
                             ELSE m[i]]
    ELSE Append(m, [id |-> k, plane |-> v])
MapDelete(m, k) == SelectSeq(m, LAMBDA e : e.id # k)
MapKeys(m) == { m[i].id : i \in DOMAIN m }

\* The methods that Plane and Entity define: WW2Plane.dispose() begins with
\* super.dispose(), which is looked up on Plane.prototype and then on
\* Entity.prototype.
PlaneMethods ==
    {"createMesh", "setupEventListeners", "update", "updateMovement",
     "applyAutoStabilization", "applyGravity", "updatePropeller",
     "updateControlSurfaces", "emitFlightInfoUpdate", "initWingTrails",
     "updateWingTrails", "updateSingleTrail"}
EntityMethods ==
    {"init", "update", "setPosition", "setRotation", "setScale",
     "addToScene", "removeFromScene"}

\* remotePlane.dispose() throws a TypeError: super.dispose is not a function.
DisposeThrows_inherited == FALSE
DisposeThrows == "dispose" \notin PlaneMethods \cup EntityMethods

\* The listeners of the event bus that write to the socket.
SendingListeners(event) ==
    IF event = "plane.fire" THEN {"sendFireEvent"} ELSE {}

\* sendFireEvent(data): socket.send(JSON.stringify(fireMsg)) when connected
sendFireEvent(log) ==
    IF connected /\ socket # "none" THEN Append(log, "fire") ELSE log

\* eventBus.emit of each event of a sequence, in order
RECURSIVE Emit(_, _)
Emit(log, events) ==
    IF events = <<>> THEN log
    ELSE Emit(IF "sendFireEvent" \in SendingListeners(Head(events))
              THEN sendFireEvent(log) ELSE log,
              Tail(events))

\* AmmoSystem: if (now - this.lastFireTime < this.fireCooldown) return;
\* this.lastFireTime = now; createBullet(left...); createBullet(right...)
SpawnPair(ammo, t) ==
    [ammo EXCEPT !.lastFireTime = t, !.spawns = Append(@, t)]

fireBullets_noCooldown(ammo, t) == SpawnPair(ammo, t)
fireBullets(ammo, t) ==
    IF t - ammo.lastFireTime < fireCooldown
    THEN [ammo EXCEPT !.refused = t]
    ELSE SpawnPair(ammo, t)

\* NetworkManager.fireBulletsWithoutSound(plane, planeVelocity, ammoSystem)
fireBulletsWithoutSound_noCooldown(ammo, t) == SpawnPair(ammo, t)
fireBulletsWithoutSound(ammo, t) ==
    IF t - ammo.lastFireTime < fireCooldown
    THEN [ammo EXCEPT !.refused = t]
    ELSE SpawnPair(ammo, t)

\* The events handleRemoteFire emits when it gets past its early returns.
handleRemoteFireEvents_rebroadcast == <<"sound.play", "plane.fire">>
handleRemoteFireEvents == <<"sound.play">>

\* The events WW2Plane.fireAmmo emits: sound.play from fireBullets when a
\* pair was spawned, then plane.fire.
fireAmmoEvents(spawned) ==
    IF spawned THEN <<"sound.play", "plane.fire">> ELSE <<"plane.fire">>

\* createRemotePlane(planeFactory, playerData)
createRemotePlane_own(reg, playerData) ==
    IF MapHas(reg, playerData.id) THEN reg
    ELSE MapSet(reg, playerData.id, createEnemyPlane)
createRemotePlane(reg, playerData) ==
    IF playerData.id = nmClientId THEN reg
    ELSE IF MapHas(reg, playerData.id) THEN reg
    ELSE MapSet(reg, playerData.id,
                [createEnemyPlane EXCEPT
                    !.position = IF "position" \in DOMAIN playerData
                                 THEN SetVec(playerData.position) ELSE @,
                    !.rotation = IF "rotation" \in DOMAIN playerData
                                 THEN SetVec(playerData.rotation) ELSE @])

\* initExistingPlayers(players)
RECURSIVE initExistingPlayers(_, _)
initExistingPlayers(reg, players) ==
    IF players = <<>> THEN reg
    ELSE initExistingPlayers(createRemotePlane(reg, Head(players)),
                             Tail(players))

\* updateRemotePlayer(data)
updateRemotePlayer(reg, data) ==
    IF ~MapHas(reg, data.id) THEN createRemotePlane(reg, data)
    ELSE MapSet(reg, data.id,
                [MapGet(reg, data.id) EXCEPT
                    !.position = IF "position" \in DOMAIN data
                                 THEN Lerp(@, data.position) ELSE @,
                    !.rotation = IF "rotation" \in DOMAIN data
                                 THEN Lerp(@, data.rotation) ELSE @,
                    !.speed = IF "speed" \in DOMAIN data
                              THEN data.speed ELSE @])

\* removeRemotePlayer(playerId): dispose() comes before remotePlanes.delete,
\* and the TypeError it throws is caught by handleMessage.
removeRemotePlayer(reg, playerId) ==
    IF ~MapHas(reg, playerId) THEN reg
    ELSE IF DisposeThrows THEN reg
    ELSE MapDelete(reg, playerId)

\* Whether the received position is more than snapDistance from the plane:
\* decided by the coordinates when all are modelled ones, open otherwise.
IsModelled(p) == \A k \in XYZ : p[k].t = "num"
FarOutcomes(p, q) ==
    IF IsModelled(p) /\ IsModelled(q)
    THEN {SquaredDistance(p, q) > snapDistance * snapDistance}
    ELSE BOOLEAN

\* data.position.x, data.direction.x and data.velocity.x can be read.
HasFireFields(data) ==
    {"position", "direction", "velocity"} \subseteq DOMAIN data

\* Whether handleRemoteFire(data) gets past its early returns.
FireReachesPlane(reg, data) ==
    /\ data.id # nmClientId
    /\ MapHas(reg, data.id)
    /\ HasFireFields(data)

\* handleRemoteFire(data), far being the outcome of the distance test
handleRemoteFire(reg, data, far) ==
    IF ~FireReachesPlane(reg, data) THEN reg
    ELSE MapSet(reg, data.id,
                [MapGet(reg, data.id) EXCEPT
                    !.position = IF far THEN SetVec(data.position) ELSE @,
                    !.ammoSystem = fireBulletsWithoutSound(@, now)])

\* The poses a peer's client encodes in sendUpdate.
PeerPoses ==
    { [position |-> Vec(0, 0, 0), rotation |-> Vec(0, 0, 0),
       speed |-> JNum(0)],
      [position |-> Vec(6, 3, 0), rotation |-> Vec(0, 6, 0),
       speed |-> JNum(3)] }

\* sendUpdate: the text of the update frame for a pose
UpdateFrame(pose) ==
    ObjectText(StringifyObject(
        [type |-> "update", position |-> pose.position,
         rotation |-> pose.rotation, speed |-> pose.speed]))

\* The text frames a peer may write to the server: those of sendUpdate,
\* those of sendFireEvent, and an update frame that lacks fields.
PeerUpdateFrames ==
    { UpdateFrame(pose) : pose \in PeerPoses }
    \cup { ObjectText(o) : o \in IncompleteUpdates }
PeerFireFrames == { ObjectText(o) : o \in FireFrames }

\* What the server makes of a peer's frame for the other connections.
RelayedUpdate(id, raw) == createPlayerUpdateMessage(id, ParseObject(raw.obj))
RelayedFire(id, raw) == createFireMessage(id, ParseObject(raw.obj))

\* The record the server holds for a peer: the one of its accept handler, or
\* that one after an update frame of the peer.
PeerRecords(id) ==
    { DefaultClientData(id) }
    \cup { UpdateClientData(DefaultClientData(id), ParseObject(raw.obj)) :
             raw \in PeerUpdateFrames }

\* The frames the server may write to this client's socket after the init
\* frame, for the identities it has handed out.
Issued == 1..issued
InboundFrames ==
    { InitMessage(serverId) }
    \cup { PlayersMessage(<<r>>) : r \in UNION { PeerRecords(id) : id \in Issued } }
    \cup { RelayedUpdate(id, raw) : id \in Issued, raw \in PeerUpdateFrames }
    \cup { RelayedFire(id, raw) : id \in Issued, raw \in PeerFireFrames }
    \cup { DisconnectMessage(id) : id \in Issued }

\* The pose a frame or a roster record reports for its identity.
ReportedBy(data) == Pick(data, {"position", "rotation", "speed"})

\* connect(data) followed by the socket's open event (handleConnection); the
\* server's accept handler gives the connection the next identity.
connect ==
    /\ socket # "open"
    /\ issued < MaxIds
    /\ issued' = issued + 1
    /\ serverId' = issued + 1
    /\ socket' = "open"
    /\ initSeen' = FALSE
    /\ connected' = TRUE
    /\ UNCHANGED <<nmClientId, remotePlanes, now, playerAmmo, lastUpdateTime,
                   sent, reported, ticked, departed, frames>>
    /\ UNCHANGED <<relayVars, lerpVars, poolVars, gameVars, socketVars>>

\* Another player's connection is accepted by the server.
PeerAccepted ==
    /\ issued < MaxIds
    /\ issued' = issued + 1
    /\ UNCHANGED <<serverId, socket, initSeen, connected, nmClientId,
                   remotePlanes, now, playerAmmo, lastUpdateTime, sent,
                   reported, ticked, departed, frames>>
    /\ UNCHANGED <<relayVars, lerpVars, poolVars, gameVars, socketVars>>

\* handleMessage(event).  The server writes the init frame first and once on
\* every connection.
handleMessage(frame) ==
    /\ socket = "open"
    /\ frames < MaxFrames
    /\ (frame.type = "init") <=> ~initSeen
    /\ frames' = frames + 1
    /\ initSeen' = TRUE
    /\ LET message == ParseObject(frame)
       IN  CASE message.type = "init" ->
                  /\ nmClientId' = message.id
                  /\ UNCHANGED <<remotePlanes, sent, reported, departed>>
             [] message.type = "players" ->
                  /\ remotePlanes' =
                         initExistingPlayers(remotePlanes, message.players)
                  /\ reported' =
                         [i \in MapKeys(remotePlanes')
                                   \ MapKeys(remotePlanes) |->
                            ReportedBy(message.players[
                                CHOOSE n \in DOMAIN message.players :
                                    message.players[n].id = i])]
                         @@ reported
                  /\ departed' = departed \ MapKeys(remotePlanes')
                  /\ UNCHANGED <<nmClientId, sent>>
             [] message.type = "playerUpdate" ->
                  /\ remotePlanes' = updateRemotePlayer(remotePlanes, message)
                  /\ reported' = (message.id :> ReportedBy(message)) @@ reported
                  /\ departed' = departed \ MapKeys(remotePlanes')
                  /\ UNCHANGED <<nmClientId, sent>>
             [] message.type = "playerDisconnect" ->
                  /\ remotePlanes' = removeRemotePlayer(remotePlanes, message.id)
                  /\ departed' = departed \cup {message.id}
                  /\ UNCHANGED <<nmClientId, sent, reported>>
             [] message.type = "playerFire" ->
                  /\ \E far \in IF FireReachesPlane(remotePlanes, message)
                                THEN FarOutcomes(
                                         SetVec(message.position),
                                         MapGet(remotePlanes, message.id).position)
                                ELSE {FALSE} :
                         remotePlanes' =
                             handleRemoteFire(remotePlanes, message, far)
                  /\ sent' = IF FireReachesPlane(remotePlanes, message)
                             THEN Emit(sent, handleRemoteFireEvents)
                             ELSE sent
                  /\ UNCHANGED <<nmClientId, reported, departed>>
             [] OTHER ->
                  UNCHANGED <<nmClientId, remotePlanes, sent, reported,
                              departed>>
    /\ UNCHANGED <<issued, serverId, socket, connected, now, playerAmmo,
                   lastUpdateTime, ticked>>
    /\ UNCHANGED <<relayVars, lerpVars, poolVars, gameVars, socketVars>>

\* handleDisconnection(): the socket's close event.  plane.dispose() throws
\* in the forEach, so remotePlanes.clear() is reached only when the Map is
\* empty.
handleDisconnection ==
    /\ socket = "open"
    /\ socket' = "closed"
    /\ connected' = FALSE
    /\ serverId' = 0
    /\ remotePlanes' = IF DisposeThrows THEN remotePlanes ELSE <<>>
    /\ UNCHANGED <<issued, initSeen, nmClientId, now, playerAmmo,
                   lastUpdateTime, sent, reported, ticked, departed, frames>>
    /\ UNCHANGED <<relayVars, lerpVars, poolVars, gameVars, socketVars>>

\* sendUpdate(currentTime): whether an update frame is written
SendsUpdate_unthrottled(currentTime) == connected /\ socket # "none"
SendsUpdate(currentTime) ==
    /\ connected
    /\ socket # "none"
    /\ ~(currentTime - lastUpdateTime < updateInterval)

\* One animation frame: Game.update(currentTime) runs playerPlane.update,
\* which fires when the space key is down, and then
\* networkManager.update(currentTime).
animate(space) ==
    /\ space => frames < MaxFrames
    /\ frames' = IF space THEN frames + 1 ELSE frames
    /\ LET ammo == IF space THEN fireBullets(playerAmmo, now) ELSE playerAmmo
           fired == IF space THEN Emit(sent, fireAmmoEvents(ammo.spawns # playerAmmo.spawns))
                    ELSE sent
       IN  /\ playerAmmo' = ammo
           /\ sent' = IF SendsUpdate(now) THEN Append(fired, "update")
                      ELSE fired
    /\ lastUpdateTime' = IF SendsUpdate(now) THEN now ELSE lastUpdateTime
    /\ ticked' = IF connected THEN MapKeys(remotePlanes) ELSE {}
    /\ UNCHANGED <<issued, serverId, socket, initSeen, connected, nmClientId,
                   remotePlanes, now, reported, departed>>
    /\ UNCHANGED <<relayVars, lerpVars, poolVars, gameVars, socketVars>>

\* Time passes between two callbacks.
Delays == {10, 70}
Elapse(d) ==
    /\ now + d <= MaxTime
    /\ now' = now + d
    /\ UNCHANGED <<issued, serverId, socket, initSeen, connected, nmClientId,
                   remotePlanes, playerAmmo, lastUpdateTime, sent, reported,
                   ticked, departed, frames>>
    /\ UNCHANGED <<relayVars, lerpVars, poolVars, gameVars, socketVars>>

InitClient ==
    /\ build = "main"
    /\ RelayConstructed
    /\ ClientConstructed
    /\ LerpIdle
    /\ PoolConstructed
    /\ NoSockets
    /\ GameConstructed(TRUE)

\* The registry and the poses: the frames of every kind, at one instant.
NextClient ==
    \/ connect
    \/ PeerAccepted
    \/ \E frame \in InboundFrames : handleMessage(frame)
    \/ handleDisconnection
    \/ animate(FALSE)

SpecClient == InitClient /\ [][NextClient]_vars

\* Firing: the frames that reach the ammo systems, local triggers, and time.
FireInboundFrames ==
    { InitMessage(serverId) }
    \cup { PlayersMessage(<<DefaultClientData(id)>>) : id \in Issued }
    \cup { RelayedFire(id, raw) : id \in Issued, raw \in PeerFireFrames }

NextFire ==
    \/ connect
    \/ PeerAccepted
    \/ \E frame \in FireInboundFrames : handleMessage(frame)
    \/ \E space \in BOOLEAN : animate(space)
    \/ \E d \in Delays : Elapse(d)

SpecFire == InitClient /\ [][NextFire]_vars

\* The throttle of sendUpdate: render frames over a longer stretch of time,
\* with the connection closing and opening again in between.
MaxClock == 260     \* last timestamp of a render frame examined, in ms
RenderGaps == {30, 70}
Wait(d) ==
    /\ now + d <= MaxClock
    /\ now' = now + d
    /\ UNCHANGED <<issued, serverId, socket, initSeen, connected, nmClientId,
                   remotePlanes, playerAmmo, lastUpdateTime, sent, reported,
                   ticked, departed, frames>>
    /\ UNCHANGED <<relayVars, lerpVars, poolVars, gameVars, socketVars>>

NextThrottle ==
    \/ connect
    \/ handleDisconnection
    \/ animate(FALSE)
    \/ \E d \in RenderGaps : Wait(d)

SpecThrottle == InitClient /\ [][NextThrottle]_vars
(***************************************************************************)
(* The bullet pool of one AmmoSystem                                       *)
(*                                                                         *)
(* The ammo system of a remote plane: handleRemoteFire spawns into it for  *)
(* every playerFire frame, NetworkManager.update calls its update() in     *)
(* every animation frame of a connected client.  Frames keep arriving      *)
(* while no animation frame runs (a hidden page), so any number of spawns  *)
(* can lie between two update() calls.                                     *)
(***************************************************************************)

MaxPoolSteps == 6   \* steps of one examination of the pool

\* this.maxBullets = 200
maxBullets == 200
\* this.bulletLifetime = 2000 (ms)
bulletLifetime == 2000

\* The indices of this.bulletPool after initBulletPool().
PoolSlots == 1..maxBullets

\* The pool as the two structures the code keeps: the active flags of the
\* slots and the array this.bullets.
PoolState(slots, list) == [active |-> slots, bullets |-> list]

\* this.bulletPool.find(b => !b.active): the first inactive slot
FirstInactive(slots) ==
    CHOOSE slot \in PoolSlots \ slots :
        \A other \in PoolSlots \ slots : slot <= other

\* createBullet(position, direction, planeVelocity) at time t
createBullet_grow(pool, t) ==
    LET slot == IF PoolSlots \subseteq pool.active
                THEN maxBullets + Len(pool.bullets)
                ELSE FirstInactive(pool.active)
    IN  PoolState(pool.active \cup {slot},
                  Append(pool.bullets, [slot |-> slot, creationTime |-> t]))
createBullet(pool, t) ==
    IF PoolSlots \subseteq pool.active THEN pool
    ELSE LET slot == FirstInactive(pool.active)
         IN  PoolState(pool.active \cup {slot},
                       Append(pool.bullets,
                              [slot |-> slot, creationTime |-> t]))

\* update(deltaTime) at time t: every bullet of this.bullets with
\* now - creationTime > bulletLifetime gets active = false and is spliced
\* out of this.bullets.
Expired(bullet, t) == t - bullet.creationTime > bulletLifetime
ammoUpdate_keepActive(pool, t) ==
    PoolState(pool.active,
              SelectSeq(pool.bullets, LAMBDA bullet : ~Expired(bullet, t)))
ammoUpdate(pool, t) ==
    PoolState(pool.active \ { pool.bullets[n].slot :
                                n \in { m \in DOMAIN pool.bullets :
                                          Expired(pool.bullets[m], t) } },
              SelectSeq(pool.bullets, LAMBDA bullet : ~Expired(bullet, t)))

\* One playerFire frame reaches the ammo system at time t: the cooldown test
\* of fireBulletsWithoutSound, then createBullet for the left and the right
\* wing.
PoolAfterFire(ammo, pool, t) ==
    IF Len(fireBulletsWithoutSound(ammo, t).spawns) > Len(ammo.spawns)
    THEN createBullet(createBullet(pool, t), t)
    ELSE pool

\* The ammo record, the pool and the time after one more playerFire frame,
\* handled fireCooldown after the time of run.
AfterNextFire(run) ==
    LET at == run.t + fireCooldown
    IN  [ammo |-> fireBulletsWithoutSound(run.ammo, at),
         pool |-> PoolAfterFire(run.ammo, run.pool, at),
         t |-> at]

\* k playerFire frames, each fireCooldown after the one before, with no
\* animation frame in between.  The train is split in halves, and the
\* first half is evaluated (its time is read) before the second starts, to
\* keep the evaluation shallow.
RECURSIVE FireTrain(_, _)
FireTrain(run, k) ==
    IF k = 0 THEN run
    ELSE IF k = 1 THEN AfterNextFire(run)
    ELSE LET half == FireTrain(run, k \div 2)
         IN  IF half.t > run.t THEN FireTrain(half, k - (k \div 2))
             ELSE half

PoolFrame ==
    UNCHANGED <<issued, serverId, socket, initSeen, connected, nmClientId,
                remotePlanes, playerAmmo, lastUpdateTime, sent, reported,
                ticked, departed, frames, relayVars, lerpVars, gameVars, socketVars>>

\* A playerFire frame is handled now.
PoolFire ==
    /\ poolSteps < MaxPoolSteps
    /\ poolSteps' = poolSteps + 1
    /\ poolAmmo' = fireBulletsWithoutSound(poolAmmo, now)
    /\ LET pool == PoolAfterFire(poolAmmo, PoolState(activeSlots, bullets), now)
       IN  /\ activeSlots' = pool.active
           /\ bullets' = pool.bullets
    /\ UNCHANGED now
    /\ PoolFrame

\* A train of playerFire frames while no animation frame runs.
TrainLengths == {99, 100}
PoolFireTrain(k) ==
    /\ poolSteps < MaxPoolSteps
    /\ poolSteps' = poolSteps + 1
    /\ LET after == FireTrain([ammo |-> poolAmmo,
                                pool |-> PoolState(activeSlots, bullets),
                                t |-> now], k)
       IN  /\ poolAmmo' = after.ammo
           /\ activeSlots' = after.pool.active
           /\ bullets' = after.pool.bullets
           /\ now' = after.t
    /\ PoolFrame

\* An animation frame: ammoSystem.update(deltaTime)
PoolUpdate ==
    /\ poolSteps < MaxPoolSteps
    /\ poolSteps' = poolSteps + 1
    /\ LET pool == ammoUpdate(PoolState(activeSlots, bullets), now)
       IN  /\ activeSlots' = pool.active
           /\ bullets' = pool.bullets
    /\ UNCHANGED <<now, poolAmmo>>
    /\ PoolFrame

\* Time passes: one cooldown, or a little more than a bullet's lifetime.
PoolDelays == {fireCooldown, bulletLifetime + 10}
PoolPass(d) ==
    /\ poolSteps < MaxPoolSteps
    /\ poolSteps' = poolSteps + 1
    /\ now' = now + d
    /\ UNCHANGED <<poolAmmo, activeSlots, bullets>>
    /\ PoolFrame

NextPool ==
    \/ PoolFire
    \/ \E k \in TrainLengths : PoolFireTrain(k)
    \/ PoolUpdate
    \/ \E d \in PoolDelays : PoolPass(d)

SpecPool == InitClient /\ [][NextPool]_vars
(***************************************************************************)
(* The Game object and its AI planes                                       *)
(***************************************************************************)

MaxGameTime == 8000     \* last value of performance.now() examined, in ms
MaxWaypointsMade == 9   \* waypoints one AI plane generates in one run

\* updateIdleState(deltaTime) at time t; reached is the outcome of the
\* distance test of reachedWaypoint() on the head of the queue.
\* (currentTime - this.lastWaypointChangeTime) > this.waypointChangeInterval
\* compares seconds; both sides are multiplied by 1000 here.
updateIdleState(ai, t, reached) ==
    LET shifted == IF Len(ai.waypointQueue) > 0 /\ reached
                   THEN [ai EXCEPT !.waypointQueue = Tail(@)]
                   ELSE ai
        refill == \/ Len(shifted.waypointQueue) < minWaypoints
                  \/ t - shifted.lastWaypointChangeTime
                         > waypointChangeInterval * 1000
        generated == generateNewWaypoint(shifted, t)
        trimmed == IF ~refill THEN shifted
                   ELSE IF Len(generated.waypointQueue) > maxWaypoints
                   THEN [generated EXCEPT
                            !.waypointQueue = SubSeq(@, 1, maxWaypoints)]
                   ELSE generated
    IN  IF Len(trimmed.waypointQueue) > 0 THEN trimmed
        ELSE generateInitialPath(trimmed, t)

\* new WebSocket(serverUrl): the connection is being established.  id is
\* the identity the server gives it when it accepts it, initSeen whether its
\* init frame has been delivered.
NewWebSocket == [readyState |-> "connecting", id |-> 0, initSeen |-> FALSE]

\* connect(data), the listener of network.connect: this.socket = new
\* WebSocket(serverUrl), whatever this.socket and this.connected were.
connectSockets(list, conn) == Append(list, NewWebSocket)

\* socket.close(): a socket that is connecting or open starts closing.
closeSocket(ws) ==
    IF ws.readyState \in {"connecting", "open"}
    THEN [ws EXCEPT !.readyState = "closing"]
    ELSE ws

\* disconnect(), the listener of network.disconnect
disconnectSockets(list, cur, conn) ==
    IF cur # 0 /\ conn
    THEN [list EXCEPT ![cur] = closeSocket(@)]
    ELSE list

\* new Game(): constructor and init().  On a multiplayer page
\* checkMultiplayerMode() emits network.connect.
NewGame ==
    /\ game = "none"
    /\ game' = "running"
    /\ isMultiplayer' = urlMultiplayer
    /\ enemyPlanes' = EnemiesOfInit(urlMultiplayer, now)
    /\ sockets' = IF urlMultiplayer THEN connectSockets(sockets, connected)
                  ELSE sockets
    /\ thisSocket' = Len(sockets')
    /\ UNCHANGED <<urlMultiplayer, relayVars, clientVars, lerpVars, poolVars>>

\* Game.update(currentTime) with no key pressed: the AI planes are updated
\* in single player mode only.
GameUpdate(reached) ==
    /\ game = "running"
    /\ \A n \in DOMAIN enemyPlanes : enemyPlanes[n].made < MaxWaypointsMade
    /\ enemyPlanes' =
           IF ~isMultiplayer
           THEN [n \in DOMAIN enemyPlanes |->
                    updateIdleState(enemyPlanes[n], now, reached)]
           ELSE enemyPlanes
    /\ UNCHANGED <<game, urlMultiplayer, isMultiplayer>>
    /\ UNCHANGED <<relayVars, clientVars, lerpVars, poolVars, socketVars>>

\* Time passes between two animation frames.
GameDelays == {1000, 3100}
GamePass(d) ==
    /\ now + d <= MaxGameTime
    /\ now' = now + d
    /\ UNCHANGED <<issued, serverId, socket, initSeen, connected, nmClientId,
                   remotePlanes, playerAmmo, lastUpdateTime, sent, reported,
                   ticked, departed, frames>>
    /\ UNCHANGED <<relayVars, lerpVars, poolVars, gameVars, socketVars>>

\* A page is loaded, with or without the multiplayer parameter in its URL.
InitGame ==
    /\ build = "main"
    /\ RelayConstructed
    /\ ClientConstructed
    /\ LerpIdle
    /\ PoolConstructed
    /\ NoSockets
    /\ GameAbsent
    /\ urlMultiplayer \in BOOLEAN

NextGame ==
    \/ NewGame
    \/ \E reached \in BOOLEAN : GameUpdate(reached)
    \/ \E d \in GameDelays : GamePass(d)

SpecGame == InitGame /\ [][NextGame]_vars

(***************************************************************************)
(* The sockets of a multiplayer page                                       *)
(***************************************************************************)

MaxSockets == 3

\* The keydown listener of checkMultiplayerMode for the key 'm': it emits
\* network.disconnect when this.networkManager.connected, else
\* network.connect.
keydownM ==
    /\ game = "running"
    /\ isMultiplayer
    /\ connected \/ Len(sockets) < MaxSockets
    /\ sockets' = IF connected
                  THEN disconnectSockets(sockets, thisSocket, connected)
                  ELSE connectSockets(sockets, connected)
    /\ thisSocket' = IF connected THEN thisSocket ELSE Len(sockets')
    /\ UNCHANGED <<relayVars, clientVars, lerpVars, poolVars, gameVars>>

\* socket.onopen = handleConnection: the server has accepted the connection
\* and given it the next identity.
onopen(i) ==
    /\ sockets[i].readyState = "connecting"
    /\ sockets' = [sockets EXCEPT ![i].readyState = "open",
                                  ![i].id = issued + 1]
    /\ issued' = issued + 1
    /\ connected' = TRUE
    /\ UNCHANGED <<serverId, socket, initSeen, nmClientId, remotePlanes, now,
                   playerAmmo, lastUpdateTime, sent, reported, ticked,
                   departed, frames>>
    /\ UNCHANGED <<thisSocket, relayVars, lerpVars, poolVars, gameVars>>

\* socket.onmessage = handleMessage with the init frame of the connection,
\* the first frame the server writes to it.
onmessage(i) ==
    /\ sockets[i].readyState \in {"open", "closing"}
    /\ sockets[i].id # 0
    /\ ~sockets[i].initSeen
    /\ sockets' = [sockets EXCEPT ![i].initSeen = TRUE]
    /\ nmClientId' = ParseObject(InitMessage(sockets[i].id)).id
    /\ UNCHANGED <<issued, serverId, socket, initSeen, connected, remotePlanes,
                   now, playerAmmo, lastUpdateTime, sent, reported, ticked,
                   departed, frames>>
    /\ UNCHANGED <<thisSocket, relayVars, lerpVars, poolVars, gameVars>>

\* socket.onclose = handleDisconnection: the connection failed, was closed
\* by the page or was lost.
onclose(i) ==
    /\ sockets[i].readyState # "closed"
    /\ sockets' = [sockets EXCEPT ![i].readyState = "closed"]
    /\ connected' = FALSE
    /\ remotePlanes' = IF DisposeThrows THEN remotePlanes ELSE <<>>
    /\ UNCHANGED <<issued, serverId, socket, initSeen, nmClientId, now,
                   playerAmmo, lastUpdateTime, sent, reported, ticked,
                   departed, frames>>
    /\ UNCHANGED <<thisSocket, relayVars, lerpVars, poolVars, gameVars>>

NextSocket ==
    \/ NewGame
    \/ keydownM
    \/ \E i \in DOMAIN sockets : onopen(i)
    \/ \E i \in DOMAIN sockets : onmessage(i)
    \/ \E i \in DOMAIN sockets : onclose(i)

SpecSocket == InitGame /\ [][NextSocket]_vars
(***************************************************************************)
(* Vocabulary of the properties                                            *)
(***************************************************************************)

Accepted == DOMAIN clientId
InRegistry(c) == \E i \in DOMAIN clients : clients[i] = c

\* The transport of c is open: the socket is OPEN and its writes arrive.
TransportOpen(c) == readyState[c] = "OPEN" /\ netUp[c]

\* How often a frame occurs in a log.
Occurrences(log, frame) == Cardinality({i \in DOMAIN log : log[i] = frame})

RelayTypes == {"playerUpdate", "playerFire"}

\* The relayed frames of a log that are tagged id, in the order of the log.
RelayedFrom(log, id) ==
    SelectSeq(log, LAMBDA f : f.type \in RelayTypes /\ f.id = id)

\* a can be read off b from left to right, skipping elements of b.
RECURSIVE IsSubsequence(_, _)
IsSubsequence(a, b) ==
    IF a = <<>> THEN TRUE
    ELSE IF b = <<>> THEN FALSE
    ELSE IF Head(a) = Head(b) THEN IsSubsequence(Tail(a), Tail(b))
    ELSE IsSubsequence(a, Tail(b))

\* The relay frame type of an inbound frame type.
RelayTypeOf(type) == IF type = "update" THEN "playerUpdate" ELSE "playerFire"

IsRelayed(raw) == raw.syntax = "object" /\ raw.obj.type \in {"update", "fire"}

(***************************************************************************)
(* C1  Identities are handed out in strictly increasing order of accept,   *)
(* so no identity is given to two connections, also when the earlier       *)
(* holder has disconnected.                                                *)
(***************************************************************************)
C1_IdentityStrictlyIncreasing ==
    \A a, b \in Accepted :
        acceptedAt[a] < acceptedAt[b] => clientId[a] < clientId[b]

\* A connection was accepted after an earlier one had closed.
C1_Witness ==
    \E a, b \in Accepted :
        /\ closedAt[a] > 0
        /\ acceptedAt[b] > closedAt[a]
        /\ readyState[b] = "OPEN"

(***************************************************************************)
(* C2  Handling an update (fire) frame of connection S appends exactly one *)
(* playerUpdate (playerFire) frame tagged with S's identity to every other *)
(* registered connection whose transport is open, and nothing to any other *)
(* connection, S included.                                                 *)
(***************************************************************************)
C2_RelayToOthersOnly ==
    [][\A ws \in Conn, raw \in RawFrames :
          (OnMessage(ws, raw) /\ IsRelayed(raw)) =>
              \A r \in Conn :
                  IF r # ws /\ InRegistry(r) /\ TransportOpen(r)
                  THEN /\ Len(delivered'[r]) = Len(delivered[r]) + 1
                       /\ SubSeq(delivered'[r], 1, Len(delivered[r]))
                              = delivered[r]
                       /\ delivered'[r][Len(delivered'[r])].type
                              = RelayTypeOf(raw.obj.type)
                       /\ delivered'[r][Len(delivered'[r])].id = clientId[ws]
                  ELSE delivered'[r] = delivered[r]]_vars

\* An update of one connection has reached two others and not its sender.
C2_Witness ==
    \E s \in Accepted : \E r1, r2 \in Accepted \ {s} :
        /\ r1 # r2
        /\ Len(RelayedFrom(delivered[r1], clientId[s])) > 0
        /\ Len(RelayedFrom(delivered[r2], clientId[s])) > 0
        /\ Len(RelayedFrom(delivered[s], clientId[s])) = 0

(***************************************************************************)
(* C3  The registry holds exactly the connections that were accepted and   *)
(* whose close has not been handled.                                       *)
(***************************************************************************)
C3_RegistrySizeMatchesOpen ==
    LET live == {c \in Conn : acceptedAt[c] > 0 /\ closedAt[c] = 0}
    IN  /\ Len(clients) = Cardinality(live)
        /\ \A c \in Conn : InRegistry(c) <=> c \in live

\* Two connections have closed and one is still registered.
C3_Witness ==
    /\ Cardinality({c \in Conn : closedAt[c] > 0}) = 2
    /\ Len(clients) = 1

(***************************************************************************)
(* C4  As stated: every connection that remains open has received exactly  *)
(* one playerDisconnect frame for each peer that has closed.               *)
(***************************************************************************)
C4_OneDisconnectPerClosedPeer ==
    \A r \in Accepted : TransportOpen(r) =>
        \A p \in Accepted : closedAt[p] > 0 =>
            Occurrences(delivered[r], DisconnectMessage(clientId[p])) = 1

(***************************************************************************)
(* C4, amended  Every connection whose transport is still open has         *)
(* received exactly one playerDisconnect frame naming each peer whose      *)
(* close was handled after that connection was accepted, and none naming   *)
(* any other identity.                                                     *)
(***************************************************************************)
C4_OneDisconnectPerPeerClosedSinceAccept ==
    \A r \in Accepted : TransportOpen(r) =>
        /\ \A p \in Accepted :
               Occurrences(delivered[r], DisconnectMessage(clientId[p]))
                   = IF closedAt[p] > acceptedAt[r] THEN 1 ELSE 0
        /\ \A i \in DOMAIN delivered[r] :
               delivered[r][i].type = "playerDisconnect" =>
                   \E p \in Accepted : delivered[r][i].id = clientId[p]

\* An open connection has seen one peer close and joined after another had.
C4_Witness ==
    \E r, p, q \in Accepted :
        /\ TransportOpen(r)
        /\ closedAt[p] > acceptedAt[r]
        /\ closedAt[q] > 0 /\ closedAt[q] < acceptedAt[r]
        /\ Occurrences(delivered[r], DisconnectMessage(clientId[p])) = 1

(***************************************************************************)
(* C5  An accept writes to the new connection an init frame with its own   *)
(* identity and then, only when other connections are registered, one      *)
(* players frame listing exactly their session records; it writes nothing  *)
(* to the connections already registered.                                  *)
(***************************************************************************)
C5_InitThenRosterOfOthers ==
    [][\A ws \in Conn :
          Accept(ws) =>
              /\ \A r \in Conn \ {ws} : delivered'[r] = delivered[r]
              /\ Len(delivered'[ws]) = IF clients = <<>> THEN 1 ELSE 2
              /\ delivered'[ws][1] = [type |-> "init", id |-> clientId'[ws]]
              /\ clients # <<>> =>
                    /\ delivered'[ws][2].type = "players"
                    /\ delivered'[ws][2].players =
                           [i \in DOMAIN clients |->
                               StringifyObject(clientData[clients[i]])]
                    /\ \A i \in DOMAIN delivered'[ws][2].players :
                           delivered'[ws][2].players[i].id # clientId'[ws]]_vars

\* A connection was handed a roster of two peers, one of which had moved.
C5_Witness ==
    \E c \in Accepted :
        /\ Len(delivered[c]) >= 2
        /\ delivered[c][1].type = "init"
        /\ delivered[c][2].type = "players"
        /\ Len(delivered[c][2].players) = 2
        /\ \E i \in 1..2 :
               Pose(delivered[c][2].players[i])
                   # Pose(StringifyObject(DefaultClientData(0)))

\* The playerUpdate frames built for the update frames of connection c.
UpdatesOf(c) == SelectSeq(handled[c], LAMBDA f : f.type = "playerUpdate")

(***************************************************************************)
(* C6  At every moment the session record of a connection holds the        *)
(* position, rotation and speed of the last update frame of that           *)
(* connection that carried all three (the default spawn state when there   *)
(* was none), so that a roster built from it carries the values of the     *)
(* most recent playerUpdate broadcast for that connection.                 *)
(***************************************************************************)
C6_RecordHoldsLastValidUpdate ==
    \A c \in Accepted :
        /\ Pose(clientData[c]) = lastValid[c]
        /\ UpdatesOf(c) # <<>> =>
               Pose(StringifyObject(clientData[c]))
                   = Pose(UpdatesOf(c)[Len(UpdatesOf(c))])

(***************************************************************************)
(* C7  Handling a frame that is not JSON changes nothing on the server:    *)
(* the registry, every session record, every connection's state and every  *)
(* outbound log stay as they were.                                         *)
(***************************************************************************)
C7_MalformedFrameIsNoOp ==
    [][\A ws \in Conn :
          OnMessage(ws, Truncated) =>
              UNCHANGED <<nextId, clients, activeClients, clientData,
                          clientId, readyState, delivered>>]_vars

\* After a dropped frame its sender is still open and registered, and a
\* later frame of the same sender has been relayed to a peer.
C7_Witness ==
    \E c \in Accepted : \E r \in Accepted \ {c} :
        /\ dropped[c] >= 0
        /\ Len(handled[c]) > dropped[c]
        /\ readyState[c] = "OPEN" /\ InRegistry(c)
        /\ Len(delivered[r]) > 0
        /\ delivered[r][Len(delivered[r])] = handled[c][Len(handled[c])]

(***************************************************************************)
(* C8  When the write to one peer fails during the fan-out of a relayed    *)
(* frame or of a playerDisconnect frame, every other peer whose transport  *)
(* is open still gets the frame as the last frame of its log, and the      *)
(* sender stays open and registered with its own log untouched.            *)
(***************************************************************************)
\* A registered peer other than ws whose socket is OPEN and whose transport
\* has failed: the fan-out writes to it and the write is lost.
FailingPeer(ws) ==
    \E f \in Conn \ {ws} : InRegistry(f) /\ readyState[f] = "OPEN" /\ ~netUp[f]

C9_NoRelayAfterDisconnect ==
    \A r \in Conn : \A i, j \in DOMAIN delivered[r] :
        (/\ i < j
         /\ delivered[r][i].type = "playerDisconnect"
         /\ delivered[r][j].type \in RelayTypes)
            => delivered[r][j].id # delivered[r][i].id

\* A receiver got a relayed frame of a peer, then that peer's disconnect,
\* then a relayed frame of another peer.
C9_Witness ==
    \E r \in Conn : \E i, j, k \in DOMAIN delivered[r] :
        /\ i < j /\ j < k
        /\ delivered[r][i].type \in RelayTypes
        /\ delivered[r][j] = DisconnectMessage(delivered[r][i].id)
        /\ delivered[r][k].type \in RelayTypes
        /\ delivered[r][k].id # delivered[r][i].id

(***************************************************************************)
(* C10  The relayed frames of one sender appear in every receiver's log in *)
(* the order in which the server handled that sender's frames.             *)
(***************************************************************************)
C10_PerSenderOrderKept ==
    \A r \in Conn : \A s \in Accepted :
        IsSubsequence(RelayedFrom(delivered[r], clientId[s]), handled[s])

\* A receiver holds two different relayed frames of one sender.
C10_Witness ==
    \E r \in Conn : \E s \in Accepted :
        LET got == RelayedFrom(delivered[r], clientId[s])
        IN  Len(got) >= 2 /\ got[1] # got[2]

(***************************************************************************)
(* C11: convergence of the interpolation                                   *)
(***************************************************************************)

\* On no axis has the step carried the position past the target: the new
\* coordinate lies between the old one and the target.
NoOvershoot ==
    \A k \in XYZ :
        \/ lerpFrom[k].n <= lerpPos[k].n /\ lerpPos[k].n <= lerpTarget[k].n
        \/ lerpFrom[k].n >= lerpPos[k].n /\ lerpPos[k].n >= lerpTarget[k].n

\* C11 as stated: for a stationary target every interpolation step strictly
\* decreases the distance between position and target while that distance is
\* not zero, and never moves the position past the target on any axis.
C11_EveryStepStrictlyCloser ==
    lerpSteps > 0 =>
        /\ NoOvershoot
        /\ SquaredDistance(lerpFrom, lerpTarget) # 0 =>
               SquaredDistance(lerpPos, lerpTarget)
                   < SquaredDistance(lerpFrom, lerpTarget)

\* The half of the divisor: a tenth of a gap of at most this many units in
\* the last place can round to no step at all.
StallGap == interpolationDivisor \div 2

\* C11, amended: for a stationary target an interpolation step never moves
\* the position past the target on any axis and never increases the distance
\* on any axis; it strictly decreases the distance when on some axis position
\* and target are more than five units in the last place apart.
C11_StepCloserUnlessWithinRounding ==
    lerpSteps > 0 =>
        /\ NoOvershoot
        /\ \A k \in XYZ :
               AxisGap(lerpPos, lerpTarget, k) <= AxisGap(lerpFrom, lerpTarget, k)
        /\ (\E k \in XYZ : AxisGap(lerpFrom, lerpTarget, k) > StallGap) =>
               SquaredDistance(lerpPos, lerpTarget)
                   < SquaredDistance(lerpFrom, lerpTarget)

\* A step that moved the position on one axis and left it short of the
\* target, while on another axis the position stayed where it was, not yet at
\* the target.
C11_Witness ==
    /\ lerpSteps > 0
    /\ AxisGap(lerpFrom, lerpTarget, "x") > StallGap
    /\ lerpPos["x"] # lerpFrom["x"]
    /\ lerpPos["x"] # lerpTarget["x"]
    /\ lerpPos["y"] = lerpFrom["y"]
    /\ lerpPos["y"] # lerpTarget["y"]

(***************************************************************************)
(* The client's registry and poses (C12 to C18)                            *)
(***************************************************************************)

\* The plane the registry holds for identity i.
PlaneOf(reg, i) == MapGet(reg, i)

\* A frame or record that carries position {x,y,z}, rotation {x,y,z} and
\* speed, all of them modelled coordinates.
ModelledPose(data) ==
    /\ {"position", "rotation", "speed"} \subseteq DOMAIN data
    /\ DOMAIN data.position = XYZ
    /\ DOMAIN data.rotation = XYZ
    /\ IsModelled(data.position)
    /\ IsModelled(data.rotation)
    /\ data.speed.t = "num"

\* The registry holds a plane for i whose position and rotation are modelled
\* coordinates.
ModelledPlane(reg, i) ==
    /\ MapHas(reg, i)
    /\ IsModelled(PlaneOf(reg, i).position)
    /\ IsModelled(PlaneOf(reg, i).rotation)

\* Plane i and the pose last reported for i are made of modelled
\* coordinates only.
Tracked(reg, i) ==
    /\ ModelledPlane(reg, i)
    /\ i \in DOMAIN reported
    /\ ModelledPose(reported[i])

\* C12 as stated: on every render frame the client's tick advances each
\* remote entity's current position and rotation toward its most recent
\* target by the blend fraction (so the displayed pose converges to the last
\* reported pose after the playerUpdate frames have stopped).
C12_TickAdvancesTowardTarget ==
    [][animate(FALSE) =>
         \A i \in MapKeys(remotePlanes) :
             Tracked(remotePlanes, i) =>
                 /\ PlaneOf(remotePlanes', i).position =
                        Lerp(PlaneOf(remotePlanes, i).position,
                             reported[i].position)
                 /\ PlaneOf(remotePlanes', i).rotation =
                        Lerp(PlaneOf(remotePlanes, i).rotation,
                             reported[i].rotation)]_vars

\* C13 as stated: handling a playerUpdate for an identity that already has a
\* remote entity (overwrites the entity's target and) leaves the entity's
\* current position and rotation unchanged.
C13_UpdateLeavesCurrentPose ==
    [][\A frame \in InboundFrames :
         ( /\ handleMessage(frame)
           /\ frame.type = "playerUpdate"
           /\ ModelledPose(frame)
           /\ ModelledPlane(remotePlanes, frame.id) ) =>
             /\ PlaneOf(remotePlanes', frame.id).position =
                    PlaneOf(remotePlanes, frame.id).position
             /\ PlaneOf(remotePlanes', frame.id).rotation =
                    PlaneOf(remotePlanes, frame.id).rotation]_vars


\* C14 as stated: for every position, rotation and speed that another client
\* encodes into an update frame, after this client has handled the relayed
\* playerUpdate its remote entity for the sender has a (target) position, a
\* (target) rotation and a speed equal to the encoded values, whether or not
\* it already had an entity for the sender.
C14_RoundTripThroughRelay ==
    [][\A id \in Issued, pose \in PeerPoses :
         ( /\ id # nmClientId
           /\ handleMessage(RelayedUpdate(id, UpdateFrame(pose))) ) =>
             /\ MapHas(remotePlanes', id)
             /\ PlaneOf(remotePlanes', id).position = pose.position
             /\ PlaneOf(remotePlanes', id).rotation = pose.rotation
             /\ PlaneOf(remotePlanes', id).speed = pose.speed]_vars


\* The step creates the plane of the identity that data names.
CreatedFrom(data) ==
    /\ ~MapHas(remotePlanes, data.id)
    /\ MapHas(remotePlanes', data.id)

\* The new plane has the position and the rotation that data carries.
SeededFrom(data) ==
    /\ "position" \in DOMAIN data
    /\ "rotation" \in DOMAIN data
    /\ PlaneOf(remotePlanes', data.id).position = SetVec(data.position)
    /\ PlaneOf(remotePlanes', data.id).rotation = SetVec(data.rotation)

\* C15 as stated: whenever the client creates a remote entity, from a record
\* of a players roster or from the first playerUpdate that names an unknown
\* identity, the new entity's position and rotation are those carried by the
\* record or frame; it never starts at a default pose.
C15_NewEntitySeededFromFrame ==
    [][\A frame \in InboundFrames :
         handleMessage(frame) =>
             /\ ( frame.type = "playerUpdate" /\ CreatedFrom(frame) ) =>
                    SeededFrom(frame)
             /\ frame.type = "players" =>
                    \A n \in DOMAIN frame.players :
                        CreatedFrom(frame.players[n]) =>
                            SeededFrom(frame.players[n])]_vars


\* C16 as stated: when the client handles a playerFire naming an identity
\* that is not its own and for which it has no remote entity yet, it creates
\* the remote entity (and then spawns the projectile pair), so the fire event
\* is not lost.
C16_FireCreatesUnknownEntity ==
    [][\A id \in Issued, raw \in PeerFireFrames :
         ( /\ id # nmClientId
           /\ ~MapHas(remotePlanes, id)
           /\ handleMessage(RelayedFire(id, raw)) ) =>
             MapHas(remotePlanes', id)]_vars


\* C17 as stated: once the client has handled playerDisconnect for an
\* identity, its registry holds no remote entity for that identity, and no
\* later update() of the network manager touches a plane of an identity whose
\* playerDisconnect was the last frame handled for it.
C17_DepartedEntityGone ==
    [][ /\ \A id \in Issued :
              handleMessage(DisconnectMessage(id)) =>
                  ~MapHas(remotePlanes', id)
        /\ animate(FALSE) => ticked' \cap departed = {} ]_vars


\* C18: in every reachable client state the registry holds at most one
\* remote plane per identity and none for the client's own identity, whatever
\* frames were handled; a roster record for an identity that already has a
\* plane builds no second plane (the existing one is left as it is).
RegistryOnePerIdentity(reg) ==
    \A m, n \in DOMAIN reg : reg[m].id = reg[n].id => m = n
AmmoSystems(reg) ==
    { playerAmmo } \cup { reg[n].plane.ammoSystem : n \in DOMAIN reg }
SpawnsApart(ammo) ==
    \A i, j \in DOMAIN ammo.spawns :
        i < j => ammo.spawns[j] - ammo.spawns[i] >= fireCooldown
InCooldown(ammo) == now - ammo.lastFireTime < fireCooldown
\* what a trigger at the present time makes of the spawn times of ammo
SpawnsAfterTrigger(ammo) ==
    IF InCooldown(ammo) THEN ammo.spawns ELSE Append(ammo.spawns, now)

\* C19: the bullet-pair spawns of one ammo system are at least the fire
\* cooldown (80 ms) apart, and a trigger spawns one pair when the cooldown
\* has elapsed and nothing before, on the local path (fireAmmo, fireBullets)
\* as on the remote path (playerFire, fireBulletsWithoutSound).
C19_SpawnsAtLeastCooldownApart ==
    [][ /\ SpawnsApart(playerAmmo')
        /\ \A n \in DOMAIN remotePlanes' :
              SpawnsApart(remotePlanes'[n].plane.ammoSystem)
        /\ animate(TRUE) =>
              playerAmmo'.spawns = SpawnsAfterTrigger(playerAmmo)
        /\ \A id \in MapKeys(remotePlanes), raw \in PeerFireFrames :
              ( /\ FireReachesPlane(remotePlanes,
                                    ParseObject(RelayedFire(id, raw)))
                /\ handleMessage(RelayedFire(id, raw)) ) =>
                  PlaneOf(remotePlanes', id).ammoSystem.spawns =
                      SpawnsAfterTrigger(PlaneOf(remotePlanes, id).ammoSystem)
      ]_vars
\* a remote plane spawned a pair for a playerFire handled at 80 ms and
\* nothing for the playerFire handled 10 ms later
C19_Witness ==
    \E n \in DOMAIN remotePlanes :
        /\ remotePlanes[n].plane.ammoSystem.spawns = <<fireCooldown>>
        /\ remotePlanes[n].plane.ammoSystem.refused = fireCooldown + 10


\* C20: handling a playerFire frame writes nothing to the socket: the bullets
\* spawned for a remote plane emit no plane.fire event, so the client sends
\* no fire frame (and no other frame) in that step.
C20_RemoteFireSendsNothing ==
    [][ \A id \in Issued, raw \in PeerFireFrames :
            handleMessage(RelayedFire(id, raw)) => sent' = sent ]_vars
\* a connected client has spawned a bullet pair for a remote plane and has
\* written no fire frame
C20_Witness ==
    /\ connected
    /\ socket = "open"
    /\ \E n \in DOMAIN remotePlanes :
           remotePlanes[n].plane.ammoSystem.spawns # <<>>
    /\ \A k \in DOMAIN sent : sent[k] # "fire"


(***************************************************************************)
(* The update throttle (C21)                                               *)
(***************************************************************************)

UpdatesSent(log) == Occurrences(log, "update")

\* C21: an update frame is written only when at least the update interval
\* (100 ms) of render-loop time has passed since the last one was written,
\* across reconnects; a render frame inside the interval writes nothing and
\* leaves nothing behind for a later frame (lastUpdateTime, the only state
\* of the throttle, changes exactly when a frame is written).
C21_UpdatesAtLeastIntervalApart ==
    [][ /\ UpdatesSent(sent') # UpdatesSent(sent) =>
              /\ UpdatesSent(sent') = UpdatesSent(sent) + 1
              /\ now - lastUpdateTime >= updateInterval
              /\ lastUpdateTime' = now
        /\ UpdatesSent(sent') = UpdatesSent(sent) =>
              lastUpdateTime' = lastUpdateTime
        /\ ( animate(FALSE) /\ now - lastUpdateTime < updateInterval ) =>
              sent' = sent
      ]_vars
\* two update frames were written, the second after the connection had
\* closed and opened again, and a render frame ran 30 ms after the second
C21_Witness ==
    /\ UpdatesSent(sent) = 2
    /\ issued >= 2
    /\ connected
    /\ now - lastUpdateTime = 30


(***************************************************************************)
(* The server's two collections (C24)                                      *)
(***************************************************************************)

Members(coll) == { coll[i] : i \in DOMAIN coll }

\* C24: in the deployed server, between any two handlers the session-record
\* table (clients) and the active set (activeClients) hold exactly the same
\* connections, so no fan-out loop and no roster construction sees a
\* connection that is in only one of them.
C24_CollectionsHoldSameConnections ==
    build = "deploy" => Members(clients) = Members(activeClients)
\* the deployed server has accepted two connections and closed one of them
C24_Witness ==
    /\ build = "deploy"
    /\ Members(clients) = Members(activeClients)
    /\ Len(activeClients) >= 1
    /\ \E c \in Conn : readyState[c] = "CLOSED"


(***************************************************************************)
(* Incomplete update frames (C25)                                          *)
(***************************************************************************)

\* A session record with position {x,y,z}, rotation {x,y,z} and speed.
CompleteRecord(rec) ==
    /\ {"position", "rotation", "speed"} \subseteq DOMAIN rec
    /\ DOMAIN rec.position = XYZ
    /\ DOMAIN rec.rotation = XYZ

\* C25 as stated: after any sequence of inbound frames every session record
\* of a registered connection has a complete position {x,y,z}, rotation
\* {x,y,z} and speed (an update frame lacking one of them is skipped).
C25_RecordsStayComplete ==
    \A i \in DOMAIN clients : CompleteRecord(clientData[clients[i]])


(***************************************************************************)
(* A local trigger inside the cooldown (C26)                               *)
(***************************************************************************)

\* C26 as stated: a local fire call that arrives before the fire cooldown
\* has elapsed spawns no bullet pair and writes no fire frame to the socket.
C26_TriggerInCooldownIsNoOp ==
    [][ ( animate(TRUE) /\ InCooldown(playerAmmo) ) =>
            /\ playerAmmo'.spawns = playerAmmo.spawns
            /\ Occurrences(sent', "fire") = Occurrences(sent, "fire") ]_vars


(***************************************************************************)
(* The client's own connection closes (C27)                                *)
(***************************************************************************)

\* C27 as stated: once the close handler of the client's socket has run, the
\* registry of remote planes is empty, however many planes it held.
C27_CloseEmptiesRegistry ==
    [][ handleDisconnection => remotePlanes' = <<>> ]_vars


(***************************************************************************)
(* The bullet pool (C22, C23)                                              *)
(***************************************************************************)

SlotsOf(list) == { list[n].slot : n \in DOMAIN list }
Exhausted == PoolSlots \subseteq activeSlots

\* C22: the active bullets of an ammo system never exceed maxBullets (200),
\* whatever fire and update calls were made, and a fire call on a pool with
\* no inactive slot activates nothing and changes no bullet, while the call
\* completes (the cooldown stamp is set as for any fire call).
C22_ActiveBulletsWithinCapacity ==
    [][ /\ activeSlots' \subseteq PoolSlots
        /\ Cardinality(activeSlots') <= maxBullets
        /\ Len(bullets') <= maxBullets
        /\ ( PoolFire /\ Exhausted ) =>
              /\ activeSlots' = activeSlots
              /\ bullets' = bullets
              /\ poolAmmo' = fireBulletsWithoutSound(poolAmmo, now)
      ]_vars
\* all 200 slots are active and the last fire call, made after the
\* cooldown, created no bullet
C22_Witness ==
    /\ Cardinality(activeSlots) = maxBullets
    /\ Len(bullets) = maxBullets
    /\ \A n \in DOMAIN bullets :
           bullets[n].creationTime < poolAmmo.lastFireTime

\* C23: update() deactivates exactly the bullets created more than
\* bulletLifetime (2000 ms) before it runs and takes them out of the active
\* list, the active flags and the list agree afterwards, and a fire call
\* after the cooldown spawns whenever a slot is inactive, so a pool that was
\* exhausted takes bullets again once bullets have expired.
C23_ExpiredBulletsFreeTheirSlots ==
    [][ /\ PoolUpdate =>
              /\ \A n \in DOMAIN bullets :
                     IF Expired(bullets[n], now)
                     THEN /\ bullets[n].slot \notin activeSlots'
                          /\ bullets[n] \notin Members(bullets')
                     ELSE /\ bullets[n].slot \in activeSlots'
                          /\ bullets[n] \in Members(bullets')
              /\ Len(bullets') <= Len(bullets)
        /\ activeSlots' = SlotsOf(bullets')
        /\ ( PoolFire /\ ~InCooldown(poolAmmo) /\ ~Exhausted ) =>
              /\ Len(bullets') > Len(bullets)
              /\ bullets'[Len(bullets')].creationTime = now
      ]_vars
\* the pool was exhausted (the 101st pair was dropped), its bullets expired,
\* and the 102nd pair went into the slots of the first
C23_Witness ==
    /\ Len(poolAmmo.spawns) = (maxBullets \div 2) + 2
    /\ Len(bullets) = 2
    /\ SlotsOf(bullets) = {1, 2}
    /\ bullets[1].creationTime = poolAmmo.lastFireTime


(***************************************************************************)
(* The AI enemy (C28, C29)                                                 *)
(***************************************************************************)

\* C28 as stated: a game started on a page whose URL carries the
\* multiplayer parameter has created no AI enemy plane.
C28_NoEnemyInMultiplayer ==
    ( game = "running" /\ urlMultiplayer ) => enemyPlanes = <<>>

\* C29 as stated: when an update of an AI plane runs more than
\* waypointChangeInterval seconds after the last waypoint change and the
\* plane has not reached the waypoint it steers toward (the head of its
\* queue), the plane steers toward another waypoint afterwards.
C29_StuckWaypointIsReplaced ==
    [][ \A n \in DOMAIN enemyPlanes :
            ( /\ GameUpdate(FALSE)
              /\ ~isMultiplayer
              /\ now - enemyPlanes[n].lastWaypointChangeTime
                     > waypointChangeInterval * 1000 ) =>
                Head(enemyPlanes'[n].waypointQueue)
                    # Head(enemyPlanes[n].waypointQueue) ]_vars



\* C30: whatever the order of the network.connect and network.disconnect
\* events and of the sockets' open, message and close callbacks, at most one
\* socket of the page is connecting or open: a connect event that comes
\* while a socket is connecting or open creates no second one.
LiveSockets ==
    { i \in DOMAIN sockets : sockets[i].readyState \in {"connecting", "open"} }
C30_AtMostOneLiveSocket == Cardinality(LiveSockets) <= 1

====
